---- MODULE Spec2Model ----
(***************************************************************************)
(* GridWorld (src/GridWorld.py): a square grid with a Player, a Goal,      *)
(* Walls and Holes.  The engines of one Python process share the module    *)
(* level generator of `random` and the class attribute GridWorld.pieces.   *)
(***************************************************************************)
EXTENDS Integers, Sequences, FiniteSets, TLC

\* ------------------------------------------------------------ constants
\* size=4 is the constructor's default and the least size its assertion admits
Size == 4
\* the retry limit of the loop in _get_empty_pos
MaxAttempts == 100

\* ------------------------------------------------------------ bounds
\* the wall count and the hole count a harness passes to the constructor
NumWalls == 1
NumHoles == 1
\* reset() calls in one run of the process
MaxResets == 3
\* calls one engine records in its log (longer histories are not compared)
MaxLog == 2
\* placement calls (set_player, add_goal, add_walls, add_holes) that are followed
MaxCalls == 2

Engines == {"a", "b"}
\* rand_seed values: 42 is the default, 11 the one EnvWrapper passes, 1 another
RandSeeds == {42, 11, 1}
\* the generator state the process starts with, when nothing seeded it yet:
\* one of the states random.seed(s) produces
OsSeeds == {5}

\* the sentinel position (-1, -1) of an unplaced piece
Unplaced == <<-1, -1>>
\* Python's None as the optional position of set_player (`not pos` holds of it)
None == <<>>

\* the intents: every list of four 0/1 flags [up, down, left, right]
Intents == {<<u, d, l, r>> : u \in {0, 1}, d \in {0, 1}, l \in {0, 1}, r \in {0, 1}}

\* ------------------------------------------------------------ the generator
\* random.seed(s) followed by random.randint(0, 3) calls: the values CPython's
\* Mersenne Twister returns, in order (random.randint(0, Size - 1))
Stream42 ==
  <<0, 0, 2, 1, 1, 1, 0, 0, 3, 0, 0, 0, 1, 1, 0, 1, 3, 1, 3, 2, 0, 1, 3, 2, 2, 1, 1, 2, 0, 0,
    3, 0, 2, 2, 2, 0, 3, 0, 3, 0, 2, 2, 1, 0, 0, 1, 2, 0, 1, 0, 3, 2, 3, 2, 1, 2, 2, 1, 2, 0,
    1, 1, 1, 3, 3, 2, 1, 2, 0, 1, 0, 2, 3, 2, 0, 1, 2, 1, 3, 3, 3, 1, 2, 1, 1, 2, 3, 3, 2, 1,
    1, 3, 0, 0, 0, 1, 1, 3, 0, 3, 3, 3, 2, 0, 0, 2, 2, 0, 2, 3, 1, 3, 0, 2, 1, 0, 2, 1, 1, 2,
    1, 0, 2, 3, 0, 0, 2, 2, 1, 0, 1, 0, 0, 3, 0, 1, 1, 3, 1, 2, 3, 1, 1, 2, 3, 2, 3, 3, 0, 1,
    1, 0, 2, 0, 1, 1, 0, 0, 0, 1, 0, 0, 2, 0, 1, 2, 3, 1, 1, 3, 1, 3, 3, 1, 0, 0, 3, 2, 3, 3,
    3, 0, 0, 0, 3, 2, 0, 1, 1, 1, 3, 1, 3, 1, 2, 3, 1, 0, 3, 0, 0, 0, 0, 1, 1, 3, 3, 3, 1, 3,
    0, 1, 3, 0, 3, 2, 3, 2, 3, 3, 1, 1, 2, 1, 0, 0, 2, 0, 0, 3, 1, 0, 0, 1, 0, 0, 1, 3, 0, 1,
    0, 0, 3, 2, 2, 1, 2, 1, 2, 3, 1, 2, 3, 2, 0, 0, 3, 0, 0, 1, 2, 1, 2, 0, 1, 2, 2, 1, 3, 2,
    0, 2, 0, 1, 2, 0, 0, 1, 2, 2, 1, 2, 1, 2, 3, 2, 0, 0, 3, 2, 0, 0, 2, 1, 2, 1, 3, 3, 0, 0,
    0, 1, 0, 2, 1, 3, 1, 0, 2, 2, 0, 2, 1, 1, 0, 2, 3, 1, 1, 1, 1, 3, 0, 1, 2, 3, 1, 2, 1, 0,
    3, 0, 3, 1, 1, 3, 2, 2, 1, 1, 0, 1, 3, 2, 2, 0, 2, 2, 3, 2, 0, 0, 2, 1, 2, 0, 0, 3, 2, 2,
    3, 0, 3, 1, 2, 0, 3, 0, 1, 2, 3, 0, 2, 2, 0, 2, 2, 3, 2, 3, 2, 1, 1, 3, 3, 1, 2, 3, 0, 2,
    2, 1, 3, 2, 3, 3, 3, 1, 3, 1, 0, 2, 2, 0, 1, 2, 1, 1, 1, 0, 0, 1, 3, 0, 3, 3, 1, 3, 3, 3,
    1, 1, 0, 0, 3, 1, 1, 3, 0, 1, 0, 3, 1, 3, 2, 3, 3, 3, 1, 3, 3, 2, 1, 2, 3, 1, 2, 3, 0, 2,
    1, 2, 2, 2, 0, 1, 1, 1, 3, 1, 1, 0, 3, 3, 2, 3, 3, 0, 1, 3, 3, 0, 3, 3, 0, 2, 2, 3, 3, 1,
    3, 1, 2, 3, 3, 0, 3, 2, 3, 1, 3, 1, 0, 3, 0, 0, 3, 1, 3, 1, 0, 2, 3, 2, 1, 3, 2, 2, 3, 2,
    3, 2, 0, 3, 0, 0, 2, 1, 0, 0, 0, 1, 1, 0, 1, 1, 1, 3, 0, 1, 3, 2, 2, 1, 0, 1, 2, 0, 0, 2,
    3, 3, 1, 0, 1, 0, 2, 0, 0, 2, 3, 2, 0, 2, 0, 3, 3, 0, 3, 2, 3, 1, 3, 1, 2, 3, 3, 3, 2, 2,
    1, 0, 2, 3, 1, 3, 3, 2, 0, 3, 2, 1, 3, 1, 2, 2, 2, 2, 2, 0, 1, 0, 1, 3, 3, 1, 3, 3, 3, 0,
    0, 2, 1, 3, 1, 2, 2, 3, 2, 3, 2, 2, 3, 2, 2, 2, 1, 0, 1, 2, 0, 1, 1, 1, 3, 2, 2, 0, 1, 2,
    1, 2, 1, 2, 0, 1, 2, 0, 0, 2, 1, 3, 0, 0, 2, 3, 3, 3, 2, 1, 0, 2, 3, 0, 0, 3, 3, 0, 0, 1,
    1, 2, 0, 1, 0, 3, 1, 3, 3, 3, 2, 3, 2, 0, 0, 1, 1, 2, 0, 1, 1, 1, 0, 1, 0, 3, 3, 3, 2, 0,
    1, 2, 2, 3, 0, 1, 2, 1, 3, 0, 1, 1, 2, 1, 0, 0, 1, 2, 2, 3, 0, 3, 2, 3, 2, 3, 3, 0, 0, 3,
    2, 2, 0, 0, 1, 0, 2, 0, 1, 3, 3, 2, 1, 3, 3, 0, 3, 2, 3, 2, 2, 0, 1, 2, 3, 3, 2, 3, 0, 3,
    0, 2, 2, 2, 0, 3, 0, 3, 3, 0, 1, 2, 3, 3, 0, 1, 2, 1, 2, 3, 3, 0, 0, 1, 1, 2, 0, 3, 0, 1,
    0, 3, 0, 1, 3, 2, 2, 3, 3, 3, 1, 3, 1, 3, 1, 1, 0, 2, 3, 2, 2, 0, 2, 2, 3, 1, 3, 3, 2, 2,
    3, 3, 2, 1, 1, 3, 1, 3, 0, 2, 3, 3, 3, 1, 3, 0, 1, 2, 0, 3, 0, 3, 0, 1, 3, 1, 0, 3, 2, 2,
    3, 0, 2, 3, 2, 3, 0, 0, 1, 2, 1, 0, 3, 0, 0, 3, 1, 2, 0, 0, 2, 0, 2, 2, 2, 3, 1, 1, 3, 1,
    1, 1, 0, 3, 1, 3, 1, 1, 3, 2, 3, 2, 0, 3, 2, 1, 0, 3, 2, 2, 3, 2, 3, 2, 1, 3, 3, 0, 1, 3,
    2, 2, 2, 0, 3, 2, 0, 0, 3, 2, 1, 2, 1, 1, 2, 1, 0, 0, 2, 3, 0, 2, 1, 0, 2, 2, 3, 1, 1, 1,
    2, 2, 1, 2, 3, 2, 2, 0, 3, 0, 1, 1, 3, 2, 0, 3, 0, 2, 0, 3, 2, 2, 3, 2, 0, 1, 3, 0, 2, 1,
    0, 3, 2, 3, 0, 1, 0, 0, 2, 3, 0, 0, 1, 1, 3, 3, 2, 3, 1, 3, 0, 3, 3, 2, 0, 2, 1, 3, 3, 1,
    2, 0, 2, 2, 0, 3, 2, 1, 0, 3, 0, 1, 0, 0, 2, 1, 1, 1, 0, 1, 1, 1, 2, 1, 0, 2, 1, 1, 2, 1,
    0, 0, 1, 0, 2, 1, 2, 0, 1, 2, 0, 1, 3, 0, 0, 3, 3, 2, 0, 3, 1, 0, 2, 3, 0, 0, 3, 3, 3, 0,
    3, 3, 0, 0, 2, 1, 0, 1, 2, 2, 3, 2, 3, 3, 0, 0, 1, 3, 3, 1, 3, 2, 3, 3, 3, 0, 2, 3, 2, 2,
    2, 1, 3, 0, 0, 0, 0, 3, 0, 2, 1, 0, 2, 0, 3, 2, 3, 0, 2, 2>>

Stream11 ==
  <<3, 3, 3, 1, 1, 3, 1, 0, 3, 2, 1, 0, 0, 3, 3, 1, 0, 0, 0, 0, 1, 1, 0, 3, 2, 3, 1, 1, 2, 3,
    0, 0, 3, 2, 3, 0, 2, 2, 1, 2, 0, 0, 0, 3, 0, 2, 3, 0, 0, 0, 1, 1, 0, 3, 3, 3, 3, 0, 1, 2,
    2, 0, 2, 2, 0, 3, 0, 1, 1, 0, 0, 0, 3, 3, 1, 1, 3, 1, 1, 3, 3, 0, 3, 3, 1, 0, 2, 2, 0, 1,
    1, 3, 0, 0, 1, 1, 3, 2, 0, 2, 2, 3, 0, 0, 0, 1, 1, 0, 2, 2, 3, 1, 3, 1, 3, 1, 1, 2, 1, 1,
    1, 1, 1, 3, 3, 0, 3, 0, 0, 0, 0, 2, 1, 3, 2, 3, 3, 2, 1, 0, 1, 1, 3, 0, 2, 1, 1, 0, 0, 2,
    3, 3, 1, 0, 0, 1, 2, 2, 1, 0, 2, 1, 3, 2, 1, 0, 0, 3, 2, 2, 0, 0, 0, 3, 0, 2, 2, 1, 0, 0,
    3, 2, 0, 1, 2, 2, 0, 3, 0, 3, 0, 3, 0, 3, 3, 0, 0, 0, 0, 0, 2, 3, 2, 3, 3, 3, 3, 0, 0, 2,
    0, 3, 0, 1, 0, 3, 3, 2, 0, 2, 2, 1, 1, 1, 2, 3, 3, 1, 2, 3, 2, 1, 3, 1, 1, 3, 1, 2, 1, 1,
    1, 3, 2, 0, 0, 2, 1, 0, 3, 3, 2, 1, 3, 3, 3, 2, 3, 2, 0, 0, 2, 0, 2, 2, 2, 0, 1, 3, 3, 1,
    0, 2, 1, 1, 0, 0, 3, 0, 2, 0, 1, 1, 3, 2, 1, 0, 3, 0, 1, 1, 2, 2, 1, 3, 1, 0, 3, 3, 1, 3,
    3, 1, 0, 3, 2, 3, 2, 1, 0, 0, 1, 1, 3, 0, 2, 2, 2, 0, 2, 0, 0, 3, 2, 3, 2, 3, 0, 1, 0, 3,
    0, 1, 2, 1, 3, 1, 3, 3, 0, 1, 3, 2, 1, 2, 2, 3, 1, 2, 1, 2, 3, 1, 3, 0, 0, 3, 0, 0, 3, 0,
    3, 0, 1, 0, 3, 3, 3, 2, 1, 3, 3, 1, 2, 3, 3, 2, 0, 1, 3, 0, 2, 1, 0, 0, 1, 1, 1, 0, 2, 2,
    2, 1, 3, 0, 3, 0, 2, 1, 3, 0, 3, 3, 1, 1, 1, 1, 1, 1, 2, 1, 2, 2, 1, 1, 1, 0, 1, 1, 1, 0,
    2, 3, 0, 3, 3, 1, 1, 3, 0, 0, 1, 2, 2, 0, 2, 1, 0, 3, 0, 0, 0, 3, 1, 1, 1, 0, 1, 1, 1, 2,
    0, 0, 1, 3, 0, 0, 2, 3, 3, 3, 2, 3, 1, 2, 0, 0, 1, 1, 3, 3, 2, 2, 3, 1, 1, 0, 0, 2, 0, 3,
    1, 2, 2, 2, 0, 1, 3, 1, 2, 2, 3, 1, 3, 1, 1, 0, 2, 2, 3, 0, 0, 2, 0, 1, 2, 2, 2, 1, 3, 1,
    0, 3, 3, 1, 0, 3, 0, 0, 0, 1, 2, 3, 3, 0, 1, 3, 0, 0, 2, 2, 2, 2, 3, 0, 3, 0, 0, 3, 1, 3,
    3, 1, 3, 0, 3, 3, 3, 2, 3, 2, 2, 2, 3, 2, 2, 2, 0, 0, 1, 0, 1, 3, 3, 0, 2, 3, 0, 2, 0, 1,
    3, 3, 2, 1, 0, 0, 3, 1, 1, 0, 0, 3, 3, 0, 1, 0, 2, 1, 0, 2, 3, 1, 3, 3, 2, 3, 2, 1, 2, 1,
    1, 3, 0, 2, 2, 2, 2, 1, 2, 1, 1, 1, 1, 0, 0, 0, 2, 2, 3, 0, 0, 0, 1, 2, 0, 0, 1, 1, 2, 3,
    3, 2, 1, 2, 2, 3, 1, 0, 0, 3, 1, 3, 3, 2, 3, 1, 2, 1, 2, 2, 1, 3, 2, 0, 3, 2, 0, 0, 3, 3,
    3, 2, 0, 0, 2, 1, 0, 2, 3, 2, 2, 1, 1, 2, 2, 2, 0, 2, 3, 2, 3, 2, 3, 2, 1, 3, 1, 0, 2, 2,
    0, 2, 3, 3, 1, 2, 3, 1, 1, 1, 0, 3, 2, 0, 1, 0, 1, 2, 0, 3, 0, 2, 0, 2, 0, 2, 0, 2, 0, 0,
    1, 0, 3, 1, 1, 3, 2, 3, 3, 2, 2, 2, 1, 3, 3, 0, 0, 3, 2, 0, 3, 0, 3, 0, 2, 0, 0, 3, 3, 1,
    1, 1, 3, 1, 2, 1, 3, 3, 2, 2, 0, 3, 2, 0, 2, 1, 1, 0, 3, 0, 3, 0, 2, 0, 1, 1, 2, 1, 1, 3,
    1, 3, 1, 2, 3, 1, 2, 3, 2, 3, 3, 2, 0, 3, 1, 3, 0, 1, 1, 3, 2, 0, 1, 0, 3, 2, 3, 1, 3, 1,
    3, 1, 2, 1, 2, 1, 2, 0, 1, 1, 0, 1, 1, 1, 0, 2, 2, 0, 3, 3, 0, 2, 0, 1, 3, 1, 0, 3, 1, 0,
    3, 3, 1, 2, 2, 2, 3, 0, 2, 3, 0, 2, 0, 1, 0, 3, 3, 0, 3, 0, 3, 3, 1, 2, 0, 3, 0, 1, 1, 2,
    3, 2, 2, 3, 0, 2, 1, 1, 3, 0, 2, 2, 2, 3, 2, 3, 3, 0, 0, 1, 0, 1, 1, 1, 1, 3, 0, 3, 0, 0,
    1, 0, 1, 0, 3, 3, 0, 2, 3, 1, 1, 1, 3, 3, 2, 3, 0, 3, 2, 1, 0, 2, 2, 1, 2, 2, 3, 0, 3, 1,
    2, 2, 0, 1, 2, 2, 1, 2, 1, 1, 1, 0, 1, 0, 1, 1, 3, 3, 2, 2, 0, 2, 2, 3, 0, 3, 1, 1, 0, 2,
    1, 2, 1, 0, 0, 2, 2, 1, 2, 1, 1, 0, 3, 0, 3, 1, 1, 2, 3, 0, 1, 1, 3, 3, 0, 1, 3, 0, 3, 1,
    2, 1, 2, 1, 2, 0, 0, 1, 3, 3, 0, 3, 2, 3, 3, 2, 3, 3, 3, 3, 0, 0, 2, 3, 3, 0, 2, 0, 2, 3,
    3, 2, 2, 0, 1, 0, 3, 1, 3, 0, 3, 0, 1, 2, 3, 1, 0, 2, 3, 1, 1, 3, 0, 0, 0, 1, 0, 3, 0, 2,
    1, 2, 0, 2, 1, 0, 3, 3, 3, 1, 2, 1, 0, 2, 0, 3, 2, 2, 2, 3, 1, 3, 1, 1, 2, 0, 1, 2, 2, 3,
    0, 1, 1, 1, 1, 0, 0, 2, 2, 2, 3, 1, 2, 3, 3, 0, 1, 1, 2, 0>>

Stream1 ==
  <<1, 0, 2, 0, 3, 3, 3, 3, 1, 0, 3, 0, 3, 3, 0, 3, 2, 1, 0, 2, 0, 0, 0, 0, 3, 1, 3, 0, 1, 3,
    3, 1, 2, 1, 1, 3, 2, 0, 3, 0, 1, 2, 0, 2, 3, 1, 2, 2, 3, 3, 0, 3, 1, 3, 3, 1, 2, 2, 0, 3,
    0, 1, 3, 2, 3, 0, 3, 0, 2, 3, 1, 1, 1, 0, 1, 1, 3, 2, 2, 3, 2, 0, 3, 1, 1, 3, 0, 3, 2, 1,
    3, 3, 2, 3, 2, 0, 2, 3, 0, 1, 1, 1, 0, 2, 0, 0, 0, 0, 3, 0, 2, 1, 2, 0, 1, 2, 2, 0, 1, 1,
    2, 1, 2, 2, 3, 2, 3, 3, 0, 0, 2, 3, 2, 3, 1, 2, 0, 2, 1, 3, 0, 1, 0, 3, 1, 0, 1, 3, 3, 1,
    3, 1, 0, 3, 2, 3, 0, 2, 1, 1, 0, 2, 0, 0, 2, 2, 1, 3, 2, 1, 0, 0, 1, 3, 1, 0, 3, 1, 2, 0,
    1, 3, 1, 3, 0, 3, 2, 3, 0, 2, 3, 2, 0, 1, 1, 2, 1, 2, 3, 1, 2, 0, 3, 2, 3, 1, 0, 0, 0, 1,
    1, 1, 1, 2, 2, 2, 2, 2, 2, 0, 2, 1, 3, 1, 0, 2, 0, 3, 0, 3, 1, 1, 2, 0, 3, 0, 1, 0, 2, 2,
    2, 0, 3, 2, 0, 0, 2, 0, 0, 0, 3, 0, 0, 1, 1, 3, 1, 0, 3, 1, 1, 1, 0, 3, 3, 2, 2, 3, 2, 0,
    1, 2, 0, 0, 0, 2, 2, 3, 3, 2, 3, 0, 0, 2, 3, 0, 2, 1, 3, 2, 2, 1, 1, 2, 1, 1, 2, 0, 2, 0,
    3, 0, 2, 1, 3, 2, 0, 2, 1, 2, 2, 1, 2, 0, 0, 1, 1, 0, 1, 3, 0, 2, 0, 0, 0, 0, 2, 2, 3, 3,
    1, 0, 2, 0, 1, 1, 1, 1, 2, 2, 0, 2, 1, 1, 1, 0, 2, 1, 1, 2, 3, 1, 0, 1, 2, 0, 3, 3, 2, 3,
    3, 0, 3, 2, 1, 2, 3, 0, 3, 0, 0, 2, 1, 1, 1, 2, 2, 3, 3, 1, 0, 1, 3, 0, 1, 2, 3, 1, 1, 2,
    3, 3, 1, 3, 2, 2, 1, 0, 0, 2, 1, 1, 2, 2, 2, 2, 1, 3, 0, 0, 3, 1, 1, 2, 3, 1, 0, 3, 3, 2,
    3, 1, 0, 0, 2, 0, 2, 0, 1, 0, 3, 1, 3, 3, 3, 1, 2, 3, 1, 3, 1, 0, 3, 3, 0, 2, 2, 1, 3, 0,
    1, 3, 0, 0, 1, 2, 1, 1, 2, 1, 1, 2, 2, 2, 3, 1, 2, 3, 3, 0, 1, 3, 1, 2, 0, 0, 0, 0, 2, 1,
    0, 2, 2, 3, 2, 2, 0, 0, 3, 3, 2, 2, 3, 2, 3, 0, 3, 3, 1, 0, 2, 1, 3, 3, 2, 1, 3, 1, 2, 0,
    3, 3, 3, 2, 0, 3, 1, 2, 0, 3, 1, 3, 2, 1, 0, 0, 2, 2, 3, 2, 1, 3, 2, 3, 1, 3, 0, 2, 0, 3,
    0, 2, 0, 3, 0, 1, 1, 0, 3, 2, 2, 1, 1, 1, 2, 2, 0, 0, 2, 3, 0, 1, 2, 2, 2, 1, 3, 3, 1, 3,
    2, 2, 1, 2, 1, 0, 3, 2, 3, 1, 2, 1, 0, 1, 3, 1, 2, 3, 1, 1, 1, 3, 2, 2, 3, 1, 0, 1, 2, 0,
    0, 1, 3, 2, 3, 0, 1, 0, 0, 0, 1, 0, 3, 3, 2, 2, 0, 1, 0, 1, 3, 1, 3, 3, 3, 1, 1, 1, 2, 3,
    3, 1, 3, 2, 2, 3, 0, 1, 0, 0, 0, 0, 3, 2, 3, 2, 1, 3, 1, 1, 0, 0, 3, 1, 0, 3, 2, 1, 0, 3,
    2, 0, 0, 0, 1, 0, 2, 0, 3, 0, 1, 0, 3, 1, 2, 1, 3, 3, 2, 2, 2, 1, 1, 0, 1, 2, 3, 0, 2, 3,
    1, 3, 0, 2, 0, 2, 1, 0, 1, 0, 1, 3, 0, 0, 0, 3, 2, 0, 2, 0, 1, 0, 3, 1, 3, 3, 0, 2, 0, 2,
    2, 0, 2, 0, 3, 0, 2, 2, 1, 2, 3, 0, 2, 0, 3, 1, 1, 2, 2, 3, 3, 0, 1, 3, 0, 2, 1, 1, 2, 3,
    2, 0, 3, 2, 1, 0, 0, 2, 2, 3, 2, 2, 2, 2, 2, 0, 0, 1, 2, 2, 2, 0, 3, 2, 3, 3, 2, 3, 0, 0,
    1, 0, 3, 2, 1, 2, 2, 2, 3, 2, 3, 2, 1, 0, 1, 2, 1, 1, 0, 1, 3, 0, 0, 2, 0, 1, 2, 0, 0, 0,
    1, 1, 3, 0, 2, 3, 2, 1, 1, 3, 1, 3, 3, 2, 1, 3, 0, 2, 3, 1, 0, 3, 3, 0, 3, 3, 0, 2, 3, 0,
    1, 2, 0, 0, 2, 2, 2, 3, 3, 2, 3, 2, 1, 3, 1, 1, 2, 0, 3, 0, 2, 3, 3, 2, 0, 0, 0, 0, 3, 2,
    3, 2, 2, 3, 2, 3, 3, 0, 3, 2, 1, 3, 1, 0, 1, 2, 2, 1, 2, 3, 2, 2, 3, 2, 3, 2, 3, 1, 3, 3,
    3, 0, 0, 1, 1, 1, 1, 0, 0, 2, 1, 3, 0, 3, 1, 0, 0, 3, 0, 1, 3, 2, 0, 0, 3, 0, 2, 2, 1, 3,
    0, 1, 0, 3, 0, 3, 2, 3, 3, 0, 3, 0, 1, 3, 1, 1, 2, 3, 2, 3, 1, 2, 3, 0, 0, 2, 2, 0, 3, 2,
    0, 1, 2, 2, 1, 3, 1, 1, 2, 1, 3, 0, 1, 3, 2, 2, 3, 2, 2, 3, 1, 3, 2, 3, 1, 2, 1, 1, 3, 1,
    0, 2, 1, 1, 2, 3, 3, 2, 0, 1, 1, 2, 1, 0, 0, 1, 0, 1, 1, 2, 3, 2, 0, 0, 2, 1, 0, 1, 2, 2,
    2, 3, 0, 0, 2, 2, 1, 0, 2, 1, 0, 2, 0, 0, 0, 2, 2, 1, 2, 0, 2, 0, 0, 1, 3, 2, 1, 0, 2, 2,
    0, 2, 0, 2, 1, 2, 3, 0, 3, 3, 3, 2, 1, 2, 1, 0, 0, 1, 1, 1, 3, 2, 0, 2, 2, 2, 3, 1, 3, 0,
    2, 0, 2, 0, 2, 3, 1, 1, 0, 1, 1, 3, 2, 2, 2, 1, 1, 3, 3, 3>>

Stream5 ==
  <<2, 2, 0, 3, 1, 0, 1, 0, 2, 3, 1, 3, 0, 1, 0, 1, 3, 2, 1, 3, 1, 0, 1, 3, 1, 1, 0, 0, 1, 1,
    1, 1, 2, 2, 1, 1, 1, 1, 3, 2, 0, 2, 3, 1, 1, 2, 0, 2, 2, 0, 2, 0, 2, 2, 2, 3, 2, 1, 3, 3,
    1, 0, 2, 0, 2, 3, 0, 3, 2, 3, 0, 3, 0, 1, 1, 0, 1, 3, 2, 2, 2, 3, 0, 2, 2, 0, 3, 0, 1, 2,
    2, 1, 2, 2, 0, 2, 2, 2, 1, 0, 1, 2, 3, 1, 0, 0, 3, 0, 1, 2, 2, 3, 3, 1, 0, 0, 3, 2, 1, 1,
    1, 3, 0, 1, 3, 2, 1, 0, 3, 2, 1, 3, 1, 3, 3, 2, 3, 2, 2, 3, 3, 1, 0, 3, 1, 3, 2, 1, 0, 3,
    2, 2, 0, 2, 0, 2, 2, 2, 3, 2, 2, 2, 1, 0, 3, 2, 2, 2, 3, 2, 2, 2, 2, 2, 3, 2, 1, 3, 2, 2,
    1, 1, 1, 2, 3, 2, 0, 3, 1, 3, 2, 2, 0, 1, 1, 3, 1, 1, 1, 0, 3, 1, 1, 0, 1, 0, 2, 1, 3, 1,
    0, 3, 3, 2, 3, 0, 1, 1, 2, 0, 2, 3, 2, 3, 0, 2, 0, 2, 0, 2, 2, 2, 2, 1, 3, 3, 2, 3, 1, 1,
    3, 3, 1, 1, 0, 2, 0, 3, 0, 2, 1, 2, 3, 3, 3, 1, 3, 2, 3, 3, 3, 1, 2, 2, 3, 2, 3, 0, 2, 2,
    3, 2, 1, 3, 0, 0, 3, 1, 2, 0, 1, 3, 0, 3, 2, 1, 3, 0, 1, 3, 2, 1, 2, 2, 3, 3, 0, 0, 1, 2,
    2, 2, 2, 0, 3, 2, 2, 1, 0, 0, 2, 3, 0, 1, 0, 3, 3, 3, 3, 3, 3, 1, 2, 3, 0, 2, 0, 3, 2, 3,
    2, 1, 1, 3, 3, 2, 1, 3, 0, 0, 1, 2, 0, 0, 0, 2, 3, 0, 3, 3, 0, 0, 0, 1, 0, 1, 2, 3, 1, 1,
    1, 3, 1, 0, 1, 0, 0, 3, 0, 2, 0, 0, 3, 1, 0, 3, 0, 2, 3, 3, 2, 2, 0, 1, 2, 1, 2, 1, 2, 0,
    1, 2, 2, 1, 1, 2, 3, 3, 1, 1, 0, 2, 0, 0, 0, 0, 3, 1, 3, 3, 3, 2, 0, 0, 3, 0, 1, 3, 1, 0,
    0, 3, 1, 1, 3, 2, 1, 2, 2, 2, 3, 3, 1, 2, 2, 3, 2, 0, 1, 1, 3, 0, 0, 0, 0, 1, 1, 1, 0, 3,
    3, 2, 0, 3, 3, 2, 3, 2, 3, 3, 0, 1, 1, 1, 0, 2, 3, 3, 1, 2, 0, 2, 1, 2, 1, 0, 3, 0, 2, 2,
    2, 0, 0, 3, 3, 1, 0, 2, 2, 3, 1, 1, 0, 1, 0, 1, 0, 3, 2, 2, 1, 3, 2, 2, 0, 3, 1, 1, 1, 1,
    0, 3, 2, 0, 3, 0, 3, 3, 1, 0, 0, 2, 0, 0, 1, 3, 0, 3, 0, 1, 0, 3, 3, 0, 0, 2, 3, 3, 2, 0,
    0, 1, 1, 3, 1, 1, 0, 2, 0, 0, 1, 0, 1, 0, 3, 2, 3, 3, 3, 1, 0, 2, 3, 1, 0, 1, 2, 3, 0, 2,
    3, 2, 1, 1, 0, 3, 1, 0, 3, 1, 2, 0, 3, 1, 0, 1, 2, 2, 0, 0, 3, 2, 3, 0, 2, 1, 0, 3, 1, 0,
    0, 3, 2, 0, 3, 1, 2, 0, 2, 1, 1, 2, 3, 2, 2, 0, 0, 0, 0, 0, 0, 1, 2, 3, 2, 0, 1, 3, 1, 2,
    1, 2, 2, 0, 1, 1, 0, 2, 1, 1, 3, 3, 3, 0, 2, 2, 3, 1, 3, 3, 1, 3, 0, 1, 3, 3, 0, 0, 1, 3,
    0, 1, 0, 0, 1, 3, 2, 3, 3, 1, 1, 2, 1, 2, 2, 1, 2, 2, 1, 0, 3, 3, 2, 1, 1, 1, 3, 3, 0, 0,
    1, 3, 0, 2, 1, 2, 3, 3, 0, 1, 3, 0, 0, 1, 3, 0, 2, 0, 2, 3, 3, 3, 3, 0, 1, 3, 2, 0, 1, 2,
    2, 0, 0, 0, 2, 3, 2, 0, 2, 1, 0, 0, 0, 2, 2, 1, 3, 0, 0, 1, 2, 3, 3, 0, 3, 3, 1, 1, 2, 3,
    2, 0, 2, 1, 0, 1, 2, 2, 2, 0, 1, 0, 3, 1, 1, 0, 3, 3, 1, 3, 3, 1, 2, 3, 2, 0, 2, 1, 3, 0,
    1, 0, 2, 1, 3, 1, 2, 0, 2, 0, 0, 3, 1, 0, 2, 1, 3, 3, 1, 3, 0, 0, 1, 1, 0, 0, 2, 1, 2, 0,
    3, 2, 1, 0, 2, 0, 0, 1, 1, 2, 2, 1, 3, 0, 1, 3, 3, 3, 0, 0, 2, 1, 0, 3, 3, 2, 0, 3, 2, 0,
    0, 3, 2, 1, 2, 3, 1, 2, 3, 0, 0, 2, 3, 2, 0, 3, 0, 1, 3, 1, 2, 0, 1, 2, 0, 3, 3, 1, 3, 1,
    0, 3, 2, 1, 0, 0, 1, 2, 0, 0, 2, 3, 3, 0, 0, 1, 1, 3, 0, 3, 0, 2, 3, 0, 0, 1, 3, 3, 0, 1,
    0, 3, 3, 3, 3, 0, 1, 2, 1, 2, 1, 3, 0, 2, 1, 3, 3, 1, 2, 1, 3, 2, 2, 0, 0, 1, 3, 0, 0, 3,
    0, 3, 1, 1, 0, 3, 2, 3, 1, 3, 1, 0, 2, 0, 0, 1, 3, 0, 2, 1, 2, 2, 1, 1, 2, 0, 2, 0, 0, 3,
    2, 2, 2, 3, 3, 1, 1, 2, 0, 0, 3, 1, 1, 3, 0, 0, 0, 1, 3, 1, 1, 2, 0, 1, 0, 3, 2, 0, 2, 3,
    3, 0, 0, 2, 2, 3, 3, 2, 1, 0, 3, 0, 1, 3, 0, 2, 2, 3, 1, 3, 2, 0, 3, 0, 1, 3, 0, 0, 0, 0,
    2, 1, 2, 2, 2, 2, 3, 1, 0, 2, 2, 0, 2, 3, 1, 1, 2, 3, 1, 1, 0, 2, 0, 0, 3, 0, 3, 0, 0, 3,
    0, 3, 3, 1, 0, 0, 0, 0, 0, 3, 2, 0, 2, 0, 3, 2, 2, 3, 2, 2, 0, 2, 3, 3, 3, 1, 1, 2, 2, 1,
    3, 0, 1, 2, 0, 3, 3, 3, 1, 1, 1, 3, 1, 3, 2, 0, 1, 3, 2, 3>>

\* random.seed(4778): with 15 Walls the allocation of the Player draws the one
\* cell no Wall is on only at its last draw
Stream4778 ==
  <<2, 1, 3, 0, 2, 2, 3, 1, 2, 1, 2, 3, 0, 1, 2, 2, 3, 2, 2, 1, 2, 0, 2, 0, 3, 0, 0, 2, 0, 2,
    3, 0, 0, 0, 2, 1, 3, 0, 3, 3, 3, 0, 2, 3, 1, 2, 1, 1, 1, 1, 1, 2, 1, 2, 0, 1, 0, 2, 0, 0,
    0, 1, 0, 3, 2, 1, 3, 0, 1, 1, 3, 0, 1, 0, 2, 3, 0, 1, 3, 3, 1, 0, 2, 2, 2, 2, 0, 3, 1, 0,
    2, 2, 2, 1, 0, 1, 2, 1, 2, 1, 2, 3, 3, 0, 2, 3, 0, 1, 2, 3, 3, 2, 3, 1, 3, 2, 1, 2, 1, 3,
    0, 3, 0, 2, 1, 2, 1, 1, 0, 0, 3, 1, 3, 2, 2, 3, 3, 3, 2, 3, 3, 2, 2, 3, 3, 2, 3, 1, 3, 0,
    0, 3, 1, 0, 2, 0, 1, 0, 3, 0, 3, 2, 1, 0, 1, 2, 3, 1, 3, 0, 3, 3, 2, 1, 1, 0, 0, 2, 0, 2,
    0, 0, 0, 2, 0, 0, 2, 1, 0, 3, 1, 0, 3, 3, 1, 0, 1, 2, 0, 3, 3, 3, 2, 3, 2, 2, 0, 2, 0, 0,
    1, 1, 0, 1, 2, 1, 3, 3, 0, 2, 3, 0, 0, 0, 3, 3, 3, 0, 0, 3, 3, 1, 3, 3, 0, 1, 2, 2, 3, 2,
    1, 1, 1, 2, 0, 0, 0, 1, 0, 1, 1, 2, 3, 3, 2, 3, 2, 2, 1, 1, 0, 1, 2, 0, 2, 2, 3, 0, 3, 3,
    3, 1, 1, 1, 3, 2, 1, 2, 2, 0, 3, 0, 2, 2, 0, 1, 0, 2, 1, 2, 0, 0, 1, 2, 2, 0, 3, 0, 1, 0,
    2, 1, 3, 0, 1, 1, 2, 1, 0, 1, 0, 0, 2, 1, 0, 2, 3, 1, 2, 0, 0, 2, 1, 3, 3, 0, 3, 1, 1, 2,
    1, 1, 2, 1, 0, 1, 0, 3, 1, 1, 1, 3, 0, 0, 2, 1, 3, 0, 3, 1, 2, 1, 3, 2, 0, 2, 0, 1, 1, 1,
    0, 3, 0, 1, 3, 0, 0, 0, 3, 3, 3, 0, 1, 0, 0, 2, 3, 0, 0, 0, 3, 3, 2, 1, 3, 0, 0, 2, 0, 1,
    1, 1, 0, 3, 2, 0, 0, 1, 0, 1, 2, 0, 0, 1, 3, 1, 1, 0, 3, 0, 2, 1, 0, 3, 0, 1, 0, 1, 2, 3,
    1, 2, 3, 1, 3, 2, 1, 1, 2, 1, 3, 3, 2, 3, 3, 3, 2, 0, 0, 0, 2, 3, 0, 2, 2, 1, 0, 3, 0, 1,
    2, 1, 2, 1, 0, 1, 1, 1, 0, 2, 2, 0, 2, 3, 2, 3, 3, 0, 0, 0, 0, 3, 3, 2, 3, 0, 2, 0, 2, 3,
    3, 0, 2, 0, 1, 1, 3, 0, 2, 1, 2, 3, 2, 1, 1, 3, 3, 1, 2, 1, 3, 1, 2, 0, 0, 2, 3, 0, 1, 2,
    1, 1, 3, 0, 3, 1, 3, 3, 2, 2, 1, 1, 1, 3, 3, 0, 3, 3, 2, 0, 3, 3, 0, 1, 0, 1, 1, 1, 0, 1,
    0, 0, 0, 3, 0, 0, 1, 1, 1, 1, 2, 2, 3, 1, 3, 2, 3, 2, 1, 1, 3, 2, 3, 2, 1, 1, 2, 2, 3, 1,
    0, 3, 2, 2, 3, 2, 1, 2, 2, 0, 3, 2, 0, 3, 3, 0, 0, 3, 1, 2, 0, 2, 2, 3, 3, 1, 3, 2, 0, 1,
    0, 0, 1, 0, 1, 2, 1, 1, 2, 1, 0, 2, 2, 1, 3, 0, 3, 1, 3, 1, 2, 2, 3, 1, 0, 3, 3, 3, 1, 3,
    0, 2, 0, 2, 3, 2, 3, 1, 1, 0, 3, 3, 2, 1, 3, 0, 2, 2, 2, 1, 0, 3, 0, 0, 0, 1, 1, 3, 0, 3,
    1, 0, 3, 3, 3, 3, 0, 2, 3, 1, 2, 0, 2, 2, 2, 2, 2, 3, 2, 1, 1, 1, 2, 3, 1, 2, 2, 1, 2, 0,
    1, 2, 3, 2, 3, 2, 2, 1, 2, 2, 2, 1, 2, 2, 0, 0, 2, 0, 0, 2, 1, 1, 3, 0, 0, 0, 1, 3, 1, 0,
    1, 0, 0, 1, 3, 2, 0, 2, 2, 3, 0, 0, 1, 1, 3, 3, 3, 0, 3, 2, 1, 2, 0, 3, 1, 0, 3, 0, 1, 3,
    2, 3, 3, 1, 2, 3, 2, 2, 1, 0, 3, 1, 3, 1, 1, 1, 3, 1, 0, 2, 0, 3, 3, 1, 2, 1, 1, 1, 2, 3,
    1, 2, 2, 2, 1, 3, 3, 0, 3, 1, 1, 1, 3, 3, 2, 2, 0, 1, 0, 0, 2, 2, 2, 3, 2, 3, 1, 0, 0, 0,
    1, 3, 3, 0, 2, 1, 3, 3, 2, 2, 1, 0, 1, 0, 1, 3, 0, 0, 1, 3, 2, 0, 2, 1, 2, 0, 2, 2, 2, 0,
    0, 0, 0, 2, 2, 3, 0, 2, 0, 2, 3, 3, 1, 2, 0, 3, 2, 2, 1, 1, 0, 2, 2, 2, 3, 1, 1, 1, 0, 2,
    0, 3, 3, 0, 3, 1, 1, 3, 1, 0, 0, 1, 2, 3, 0, 0, 3, 1, 1, 3, 1, 2, 1, 1, 0, 1, 1, 2, 0, 0,
    2, 2, 1, 3, 3, 2, 3, 2, 0, 0, 0, 3, 1, 0, 2, 0, 0, 0, 2, 3, 0, 3, 3, 2, 2, 0, 2, 0, 1, 0,
    3, 2, 3, 2, 1, 2, 3, 3, 2, 0, 2, 1, 1, 0, 0, 3, 2, 3, 3, 0, 2, 0, 0, 2, 3, 2, 3, 2, 0, 1,
    2, 1, 1, 2, 2, 3, 1, 3, 2, 3, 2, 0, 0, 2, 3, 1, 3, 3, 2, 1, 3, 2, 2, 2, 2, 2, 2, 2, 3, 0,
    0, 1, 1, 2, 0, 0, 2, 1, 0, 0, 0, 3, 2, 1, 1, 3, 3, 0, 2, 1, 0, 2, 1, 3, 2, 2, 2, 0, 2, 3,
    1, 2, 1, 3, 0, 3, 2, 1, 3, 1, 1, 0, 2, 0, 0, 2, 3, 1, 1, 2, 3, 3, 3, 0, 3, 2, 1, 3, 3, 3,
    3, 2, 2, 3, 1, 0, 2, 3, 3, 2, 3, 3, 2, 0, 0, 2, 0, 0, 0, 3, 2, 1, 3, 0, 1, 1, 3, 0, 2, 1,
    1, 0, 2, 1, 2, 0, 1, 0, 1, 2, 1, 3, 0, 3, 3, 0, 0, 1, 2, 2>>

Stream(seed) ==
  CASE seed = 42 -> Stream42
    [] seed = 11 -> Stream11
    [] seed = 1 -> Stream1
    [] seed = 5 -> Stream5
    [] seed = 4778 -> Stream4778

\* how many values of a stream are tabulated
StreamLen == Len(Stream42)

\* random.seed(rand_seed): the generator restarts at the head of the seed's stream
Seeded(seed) == [seed |-> seed, idx |-> 0]

\* whether n more values of the generator's stream are tabulated
Tabulated(r, n) == r.idx + n <= StreamLen

\* random.randint(0, size - 1): the next value of the stream
randint(r) == Stream(r.seed)[r.idx + 1]

\* ------------------------------------------------------------ pieces
\* the dictionary literal of the class attribute and of clear_grid
EmptyPieces == [Player |-> Unplaced, Goal |-> Unplaced, Walls |-> <<>>, Holes |-> <<>>]

Range(s) == {s[i] : i \in 1..Len(s)}

\* _filled_pos that leaves the Walls out, as it leaves the Goal out
_filled_pos_no_walls(P, include_player) ==
  (IF include_player /\ P.Player # <<>> THEN {P.Player} ELSE {}) \cup Range(P.Holes)

\* _filled_pos: the Player (a non-empty tuple is truthy), the Walls and the
\* Holes; the Goal is not among them
_filled_pos(P, include_player) ==
  (IF include_player /\ P.Player # <<>> THEN {P.Player} ELSE {})
    \cup Range(P.Walls) \cup Range(P.Holes)

_is_empty(P, pos) == pos \notin _filled_pos(P, TRUE)

\* _get_pos: two randint calls, the row first; the generator moves on by two
_get_pos(r) ==
  [pos |-> <<randint(r), randint([r EXCEPT !.idx = r.idx + 1])>>,
   rng |-> [r EXCEPT !.idx = r.idx + 2]]

\* the generator after k more _get_pos calls
Later(r, k) == [r EXCEPT !.idx = @ + 2 * k]

\* the position the while loop of _get_empty_pos holds after n runs of its
\* body, entered with `pos` and r the generator after that draw
PosAt(pos, r, n) ==
  IF n = 0 THEN pos
  ELSE IF Tabulated(Later(r, n - 1), 2) THEN _get_pos(Later(r, n - 1)).pos
  ELSE Unplaced

\* whether the loop cannot go on after n runs of its body: the test
\* `attempts <= 100 and not _is_empty(pos)` fails, or the tabulated stream is out
LoopEnds(P, attempts, pos, r, n) ==
  \/ ~(attempts + n <= MaxAttempts /\ ~_is_empty(P, PosAt(pos, r, n)))
  \/ ~Tabulated(Later(r, n), 2)

\* the first n at which the loop cannot go on
FirstEnd(P, attempts, pos, r) ==
  CHOOSE n \in 0..(MaxAttempts + 1) :
    \A k \in 0..n : LoopEnds(P, attempts, pos, r, k) <=> (k = n)

\* what the loop leaves behind after j runs of its body; "eos": the tabulated
\* stream ran out before the test failed
LoopResult(P, attempts, pos, r, j) ==
  [st |-> IF attempts + j > MaxAttempts THEN "raise"
          ELSE IF _is_empty(P, PosAt(pos, r, j)) THEN "ok" ELSE "eos",
   pos |-> PosAt(pos, r, j), rng |-> Later(r, j), attempts |-> attempts + j]

\* the while loop of _get_empty_pos, entered with `attempts` and the drawn `pos`;
\* r is the generator after that draw.  The loop runs its body until it cannot
\* go on.
RetryLoop(P, attempts, pos, r) ==
  LoopResult(P, attempts, pos, r, FirstEnd(P, attempts, pos, r))

\* the test of the while loop of _get_empty_pos without the attempt limit
loop_test_unbounded(P, attempts, pos) == ~_is_empty(P, pos)

\* the test of the while loop of _get_empty_pos
loop_test(P, attempts, pos) == attempts <= MaxAttempts /\ ~_is_empty(P, pos)

\* _get_empty_pos: a first draw, then the loop; raises after the limit
_get_empty_pos(P, r) ==
  IF Tabulated(r, 2)
  THEN RetryLoop(P, 0, _get_pos(r).pos, _get_pos(r).rng)
  ELSE [st |-> "eos", pos |-> Unplaced, rng |-> r, attempts |-> 0]

\* set_player that stores a given position under the key 'Goal'
set_player_goal_key(P, r, pos) ==
  IF pos = None
  THEN LET g == _get_empty_pos(P, r)
       IN  [st |-> g.st, rng |-> g.rng,
            pieces |-> IF g.st = "ok" THEN [P EXCEPT !.Player = g.pos] ELSE P]
  ELSE [st |-> "ok", rng |-> r, pieces |-> [P EXCEPT !.Goal = pos]]

\* set_player(pos): a given position is taken as it is, None draws an empty one
set_player(P, r, pos) ==
  IF pos = None
  THEN LET g == _get_empty_pos(P, r)
       IN  [st |-> g.st, rng |-> g.rng,
            pieces |-> IF g.st = "ok" THEN [P EXCEPT !.Player = g.pos] ELSE P]
  ELSE [st |-> "ok", rng |-> r, pieces |-> [P EXCEPT !.Player = pos]]

add_goal(P, r) ==
  LET g == _get_empty_pos(P, r)
  IN  [st |-> g.st, rng |-> g.rng,
       pieces |-> IF g.st = "ok" THEN [P EXCEPT !.Goal = g.pos] ELSE P]

\* add_walls: range(count) is empty for count <= 0; an exception leaves the
\* walls appended so far
RECURSIVE add_walls(_, _, _)
add_walls(P, r, count) ==
  IF count <= 0
  THEN [st |-> "ok", rng |-> r, pieces |-> P]
  ELSE LET g == _get_empty_pos(P, r)
       IN  IF g.st = "ok"
           THEN add_walls([P EXCEPT !.Walls = Append(@, g.pos)], g.rng, count - 1)
           ELSE [st |-> g.st, rng |-> g.rng, pieces |-> P]

RECURSIVE add_holes(_, _, _)
add_holes(P, r, count) ==
  IF count <= 0
  THEN [st |-> "ok", rng |-> r, pieces |-> P]
  ELSE LET g == _get_empty_pos(P, r)
       IN  IF g.st = "ok"
           THEN add_holes([P EXCEPT !.Holes = Append(@, g.pos)], g.rng, count - 1)
           ELSE [st |-> g.st, rng |-> g.rng, pieces |-> P]

\* clear_grid that empties the positions and keeps the two lists
clear_grid_keep_lists(P) == [P EXCEPT !.Player = Unplaced, !.Goal = Unplaced]

\* clear_grid: a fresh dictionary, bound to the instance, whatever P it had
clear_grid(P) == EmptyPieces

\* reset: clear_grid, add_walls, add_holes, add_goal, set_player in this order;
\* the first exception ends it
reset(P, r, walls, holes) ==
  LET w == add_walls(clear_grid(P), r, walls)
      h == add_holes(w.pieces, w.rng, holes)
      g == add_goal(h.pieces, h.rng)
      p == set_player(g.pieces, g.rng, None)
  IN  IF w.st # "ok" THEN w
      ELSE IF h.st # "ok" THEN h
      ELSE IF g.st # "ok" THEN g
      ELSE p

\* ------------------------------------------------------------ moves
\* _pos_out_of_bounds with <= size for < size
_pos_out_of_bounds_incl(pos) ==
  ~(0 <= pos[1] /\ pos[1] <= Size) \/ ~(0 <= pos[2] /\ pos[2] <= Size)

_pos_out_of_bounds(pos) ==
  ~(0 <= pos[1] /\ pos[1] < Size) \/ ~(0 <= pos[2] /\ pos[2] < Size)

\* pos_on_wall that loops over the Holes
pos_on_wall_holes(P, pos) == \E i \in 1..Len(P.Holes) : pos = P.Holes[i]

pos_on_wall(P, pos) == \E i \in 1..Len(P.Walls) : pos = P.Walls[i]

\* get_reward without the Hole case
get_reward_no_hole(P) ==
  IF P.Player = P.Goal THEN [reward |-> 10, terminal |-> TRUE]
  ELSE [reward |-> -1, terminal |-> FALSE]

\* get_reward: the Goal first, then the Holes, then any other move
get_reward(P) ==
  IF P.Player = P.Goal THEN [reward |-> 10, terminal |-> TRUE]
  ELSE IF \E i \in 1..Len(P.Holes) : P.Player = P.Holes[i]
       THEN [reward |-> -10, terminal |-> TRUE]
       ELSE [reward |-> -1, terminal |-> FALSE]

\* the chain with if for elif: every set flag shifts the position
new_pos_all_flags(pos, action) ==
  <<pos[1] - (IF action[1] = 1 THEN 1 ELSE 0) + (IF action[2] = 1 THEN 1 ELSE 0),
    pos[2] - (IF action[3] = 1 THEN 1 ELSE 0) + (IF action[4] = 1 THEN 1 ELSE 0)>>

\* the chain with left and right exchanged
new_pos_swapped(pos, action) ==
  IF action[1] = 1 THEN <<pos[1] - 1, pos[2]>>
  ELSE IF action[2] = 1 THEN <<pos[1] + 1, pos[2]>>
  ELSE IF action[3] = 1 THEN <<pos[1], pos[2] + 1>>
  ELSE IF action[4] = 1 THEN <<pos[1], pos[2] - 1>>
  ELSE pos

\* the if/elif chain of move_player: the first flag that is 1 shifts the
\* position, the later ones are not looked at
new_pos(pos, action) ==
  IF action[1] = 1 THEN <<pos[1] - 1, pos[2]>>
  ELSE IF action[2] = 1 THEN <<pos[1] + 1, pos[2]>>
  ELSE IF action[3] = 1 THEN <<pos[1], pos[2] - 1>>
  ELSE IF action[4] = 1 THEN <<pos[1], pos[2] + 1>>
  ELSE pos

\* move_player that takes a Player off the grid for an error, as indexing the
\* grid with it would
move_player_strict(P, r, action) ==
  LET np == new_pos(P.Player, action)
      sp == IF ~(_pos_out_of_bounds(np) \/ pos_on_wall(P, np))
            THEN set_player(P, r, np)
            ELSE [st |-> "ok", rng |-> r, pieces |-> P]
  IN  IF Len(P.Player) # 2 \/ _pos_out_of_bounds(P.Player)
      THEN [st |-> "raise", pieces |-> P, rng |-> r, reward |-> 0, terminal |-> FALSE]
      ELSE [st |-> "ok", pieces |-> sp.pieces, rng |-> sp.rng,
            reward |-> get_reward(sp.pieces).reward,
            terminal |-> get_reward(sp.pieces).terminal]

\* move_player: set_player(new_pos) unless new_pos is off the grid or a Wall
\* (a given position draws nothing); the reward is read from the pieces after that
\* `y, x = p_pos` raises unless the Player is a pair
move_player(P, r, action) ==
  LET np == new_pos(P.Player, action)
      sp == IF ~(_pos_out_of_bounds(np) \/ pos_on_wall(P, np))
            THEN set_player(P, r, np)
            ELSE [st |-> "ok", rng |-> r, pieces |-> P]
  IN  IF Len(P.Player) # 2
      THEN [st |-> "raise", pieces |-> P, rng |-> r, reward |-> 0, terminal |-> FALSE]
      ELSE [st |-> "ok", pieces |-> sp.pieces, rng |-> sp.rng,
            reward |-> get_reward(sp.pieces).reward,
            terminal |-> get_reward(sp.pieces).terminal]

\* get_state: one layer per kind, [Player, Goal, Walls, Holes], each given as
\* the set of its cells that hold 1.0; numpy counts a negative index from the end
Wrap(pos) == <<IF pos[1] < 0 THEN pos[1] + Size ELSE pos[1],
               IF pos[2] < 0 THEN pos[2] + Size ELSE pos[2]>>

get_state(P) ==
  <<{Wrap(P.Player)}, {Wrap(P.Goal)},
    {Wrap(P.Walls[i]) : i \in 1..Len(P.Walls)},
    {Wrap(P.Holes[i]) : i \in 1..Len(P.Holes)}>>

\* to_array: a size x size array of zeros, then Player = 1, Goal = 4, every
\* Wall = 2 and every Hole = 3 written in this order, a later write over an
\* earlier one; numpy counts a negative index from the end
Cells == (0..(Size - 1)) \X (0..(Size - 1))

RECURSIVE WriteAll(_, _, _)
WriteAll(a, q, code) ==
  IF q = <<>> THEN a
  ELSE WriteAll([a EXCEPT ![Wrap(Head(q))] = code], Tail(q), code)

to_array(P) ==
  LET zeros == [c \in Cells |-> 0]
      a1 == [zeros EXCEPT ![Wrap(P.Player)] = 1]
      a2 == [a1 EXCEPT ![Wrap(P.Goal)] = 4]
      a3 == WriteAll(a2, P.Walls, 2)
  IN  WriteAll(a3, P.Holes, 3)

render_map ==
  [code \in 0..4 |->
     CASE code = 0 -> "." [] code = 1 -> "P" [] code = 2 -> "#"
       [] code = 3 -> "O" [] code = 4 -> "G"]

\* render(raw = False): one row of characters per row of to_array
render(P) ==
  [y \in 1..Size |-> [x \in 1..Size |-> render_map[to_array(P)[<<y - 1, x - 1>>]]]]

\* ------------------------------------------------------------ state
VARIABLES
  rng,          \* the generator of the `random` module, one per process
  classPieces,  \* the class attribute GridWorld.pieces, one per process
  cfg,          \* per engine: what __init__ stored (made: whether it ran)
  inst,         \* per engine: whether the instance has its own pieces, and these
  placed,       \* per engine: whether its latest reset() returned
  start,        \* per engine: the pieces its first returned reset() placed
  log,          \* per engine: its first calls and what they returned
  last,         \* the latest call and what it returned
  resets,       \* reset() calls so far
  run,          \* the reset() call that is being executed statement by statement
  calls         \* calls of set_player, add_goal, add_walls and add_holes so far

vars == <<rng, classPieces, cfg, inst, placed, start, log, last, resets, run, calls>>

\* the pieces an engine reads through self.pieces: the instance attribute once
\* clear_grid has bound one, the class attribute before
Pieces(e) == IF inst[e].own THEN inst[e].pieces ELSE classPieces

NoCfg == [made |-> FALSE, size |-> 0, walls |-> 0, holes |-> 0,
          use_random |-> FALSE, rand_seed |-> 0]

Call(op, e, action, pre, reward, terminal, st) ==
  [op |-> op, e |-> e, action |-> action, pre |-> pre,
   reward |-> reward, terminal |-> terminal, st |-> st]

\* the log of an engine after one more call: complete while it holds every call;
\* a call that raised returned no state
Logged(l, op, action, reward, terminal, st, P) ==
  IF l.complete /\ Len(l.calls) < MaxLog
  THEN [l EXCEPT !.calls = Append(@, [op |-> op, action |-> action, reward |-> reward,
                                      terminal |-> terminal, st |-> st,
                                      state |-> IF st = "ok" THEN get_state(P)
                                                ELSE <<>>])]
  ELSE [complete |-> FALSE, calls |-> <<>>]

\* no reset() is being executed; out, draws, free and pos describe the latest
\* _get_empty_pos call that came to its end: how it ended, the cells it drew,
\* the first drawn cell that was empty (None if none was) and the last drawn cell
Idle ==
  [pc |-> "idle", e |-> "a", phase |-> "none", left |-> 0, pre |-> EmptyPieces,
   attempts |-> 0, pos |-> Unplaced, draws |-> 0, free |-> None, out |-> "none"]

Init ==
  /\ rng \in {Seeded(s) : s \in OsSeeds}
  /\ classPieces = EmptyPieces
  /\ cfg = [e \in Engines |-> NoCfg]
  /\ inst = [e \in Engines |-> [own |-> FALSE, pieces |-> EmptyPieces]]
  /\ placed = [e \in Engines |-> FALSE]
  /\ start = [e \in Engines |-> EmptyPieces]
  /\ log = [e \in Engines |-> [complete |-> TRUE, calls |-> <<>>]]
  /\ last = Call("none", "a", None, EmptyPieces, 0, FALSE, "ok")
  /\ resets = 0
  /\ run = Idle
  /\ calls = 0

\* __init__: the assertion on size, the seeding unless use_random, the fields
Construct(e, walls, holes, use_random, rand_seed) ==
  /\ ~cfg[e].made
  /\ Size >= 4
  /\ rng' = IF ~use_random THEN Seeded(rand_seed) ELSE rng
  /\ cfg' = [cfg EXCEPT ![e] = [made |-> TRUE, size |-> Size, walls |-> walls,
                                holes |-> holes, use_random |-> use_random,
                                rand_seed |-> rand_seed]]
  /\ last' = Call("init", e, None, Pieces(e), 0, FALSE, "ok")
  /\ UNCHANGED <<classPieces, inst, placed, start, log, resets, run, calls>>

\* reset(): returns get_state() or ends with the allocator's exception
Reset(e) ==
  LET res == reset(Pieces(e), rng, cfg[e].walls, cfg[e].holes)
  IN  /\ cfg[e].made
      /\ run.pc = "idle"
      /\ resets < MaxResets
      /\ res.st # "eos"
      /\ rng' = res.rng
      /\ inst' = [inst EXCEPT ![e] = [own |-> TRUE, pieces |-> res.pieces]]
      /\ placed' = [placed EXCEPT ![e] = (res.st = "ok")]
      /\ start' = [start EXCEPT ![e] =
                     IF @ = EmptyPieces /\ res.st = "ok" THEN res.pieces ELSE @]
      /\ log' = [log EXCEPT ![e] = Logged(@, "reset", None, 0, FALSE, res.st, res.pieces)]
      /\ last' = Call("reset", e, None, Pieces(e), 0, FALSE, res.st)
      /\ resets' = resets + 1
      /\ UNCHANGED <<classPieces, cfg, run, calls>>

\* move_player(action): writes self.pieces['Player'], into the class attribute
\* while the instance has no pieces of its own
Move(e, action) ==
  LET m == move_player(Pieces(e), rng, action)
  IN  /\ cfg[e].made
      /\ run.pc = "idle"
      /\ IF inst[e].own
         THEN /\ inst' = [inst EXCEPT ![e].pieces = m.pieces]
              /\ UNCHANGED classPieces
         ELSE /\ classPieces' = m.pieces
              /\ UNCHANGED inst
      /\ log' = [log EXCEPT ![e] = Logged(@, "move", action, m.reward, m.terminal, m.st,
                                          m.pieces)]
      /\ rng' = m.rng
      /\ last' = Call("move", e, action, Pieces(e), m.reward, m.terminal, m.st)
      /\ UNCHANGED <<cfg, placed, start, resets, run, calls>>

\* one engine, in either mode and with every seed, given every intent
Next ==
  \E e \in {"a"} :
    \/ \E u \in BOOLEAN, s \in RandSeeds : Construct(e, NumWalls, NumHoles, u, s)
    \/ Reset(e)
    \/ \E a \in Intents : Move(e, a)

Spec == Init /\ [][Next]_vars

\* two engines of one process, both in deterministic mode with the default
\* configuration, their calls interleaved in every order
PairIntents == {<<1, 0, 0, 0>>, <<0, 1, 0, 0>>, <<0, 0, 0, 1>>}

NextPair ==
  \E e \in Engines :
    \/ Construct(e, NumWalls, NumHoles, FALSE, 42)
    \/ Reset(e)
    \/ \E a \in PairIntents : Move(e, a)

SpecPair == Init /\ [][NextPair]_vars

\* one engine in deterministic mode, constructed with a wall count or a hole
\* count outside what the grid can hold: a full grid, one cell left, two cells
\* left with Goal and Player still to come, and negative counts
OddConfigs ==
  {<<Size * Size, 0>>, <<Size * Size - 1, 0>>, <<Size * Size - 2, 1>>, <<-1, 1>>, <<1, -1>>}

NextConfig ==
  \E e \in {"a"} :
    \/ \E c \in OddConfigs : Construct(e, c[1], c[2], FALSE, 42)
    \/ Reset(e)
    \/ \E a \in PairIntents : Move(e, a)

SpecConfig == Init /\ [][NextConfig]_vars

\* ------------------------------------------------------------ statements of reset()
\* the allocation that comes next when `left` more pieces of `phase` are due:
\* the for loops of add_walls and add_holes (none for a count <= 0), then
\* add_goal, then set_player, then the return of reset()
NextAlloc(e, phase, left) ==
  IF left > 0 THEN [phase |-> phase, left |-> left]
  ELSE IF phase = "walls" /\ cfg[e].holes > 0
       THEN [phase |-> "holes", left |-> cfg[e].holes]
  ELSE IF phase \in {"walls", "holes"} THEN [phase |-> "goal", left |-> 1]
  ELSE IF phase = "goal" THEN [phase |-> "player", left |-> 1]
  ELSE [phase |-> "return", left |-> 0]

\* what the caller of _get_empty_pos does with the position it got
Put(P, phase, pos) ==
  CASE phase = "walls" -> [P EXCEPT !.Walls = Append(@, pos)]
    [] phase = "holes" -> [P EXCEPT !.Holes = Append(@, pos)]
    [] phase = "goal" -> [P EXCEPT !.Goal = pos]
    [] phase = "player" -> [P EXCEPT !.Player = pos]

\* reset() is called: clear_grid binds fresh pieces to the instance, add_walls
\* is entered.  The call is followed where the tabulated stream covers it.
ResetBegin(e) ==
  /\ cfg[e].made
  /\ run.pc = "idle"
  /\ resets < MaxResets
  /\ reset(Pieces(e), rng, cfg[e].walls, cfg[e].holes).st # "eos"
  /\ inst' = [inst EXCEPT ![e] = [own |-> TRUE, pieces |-> clear_grid(Pieces(e))]]
  /\ placed' = [placed EXCEPT ![e] = FALSE]
  /\ run' = [Idle EXCEPT !.pc = "first", !.e = e, !.pre = Pieces(e),
                         !.phase = NextAlloc(e, "walls", cfg[e].walls).phase,
                         !.left = NextAlloc(e, "walls", cfg[e].walls).left]
  /\ UNCHANGED <<rng, classPieces, cfg, start, log, last, resets, calls>>

\* _get_empty_pos: attempts = 0; pos = self._get_pos()
FirstDraw(e) ==
  /\ run.pc = "first" /\ run.e = e
  /\ Tabulated(rng, 2)
  /\ rng' = _get_pos(rng).rng
  /\ run' = [run EXCEPT !.pc = "test", !.attempts = 0, !.pos = _get_pos(rng).pos,
                        !.draws = 1, !.out = "none",
                        !.free = IF _is_empty(Pieces(e), _get_pos(rng).pos)
                                 THEN _get_pos(rng).pos ELSE None]
  /\ UNCHANGED <<classPieces, cfg, inst, placed, start, log, last, resets, calls>>

\* the body of the while loop: attempts += 1; pos = self._get_pos()
Retry(e) ==
  /\ run.pc = "test" /\ run.e = e
  /\ loop_test(Pieces(e), run.attempts, run.pos)
  /\ Tabulated(rng, 2)
  /\ rng' = _get_pos(rng).rng
  /\ run' = [run EXCEPT !.attempts = @ + 1, !.pos = _get_pos(rng).pos, !.draws = @ + 1,
                        !.free = IF @ = None /\ _is_empty(Pieces(e), _get_pos(rng).pos)
                                 THEN _get_pos(rng).pos ELSE @]
  /\ UNCHANGED <<classPieces, cfg, inst, placed, start, log, last, resets, calls>>

\* the loop is left with attempts <= 100: pos is returned and the caller stores it
Place(e) ==
  /\ run.pc = "test" /\ run.e = e
  /\ ~loop_test(Pieces(e), run.attempts, run.pos)
  /\ ~(run.attempts > MaxAttempts)
  /\ inst' = [inst EXCEPT ![e].pieces = Put(@, run.phase, run.pos)]
  /\ run' = [run EXCEPT !.out = "ok",
                        !.phase = NextAlloc(e, run.phase, run.left - 1).phase,
                        !.left = NextAlloc(e, run.phase, run.left - 1).left,
                        !.pc = IF NextAlloc(e, run.phase, run.left - 1).phase = "return"
                               THEN "return" ELSE "first"]
  /\ UNCHANGED <<rng, classPieces, cfg, placed, start, log, last, resets, calls>>

\* the loop is left with attempts > 100: the exception ends reset()
Raise(e) ==
  /\ run.pc = "test" /\ run.e = e
  /\ ~loop_test(Pieces(e), run.attempts, run.pos)
  /\ run.attempts > MaxAttempts
  /\ run' = [run EXCEPT !.pc = "idle", !.out = "raise"]
  /\ log' = [log EXCEPT ![e] = Logged(@, "reset", None, 0, FALSE, "raise", Pieces(e))]
  /\ last' = Call("reset", e, None, run.pre, 0, FALSE, "raise")
  /\ resets' = resets + 1
  /\ UNCHANGED <<rng, classPieces, cfg, inst, placed, start, calls>>

\* return self.get_state()
Return(e) ==
  /\ run.pc = "return" /\ run.e = e
  /\ run' = [run EXCEPT !.pc = "idle"]
  /\ placed' = [placed EXCEPT ![e] = TRUE]
  /\ start' = [start EXCEPT ![e] = IF @ = EmptyPieces THEN Pieces(e) ELSE @]
  /\ log' = [log EXCEPT ![e] = Logged(@, "reset", None, 0, FALSE, "ok", Pieces(e))]
  /\ last' = Call("reset", e, None, run.pre, 0, FALSE, "ok")
  /\ resets' = resets + 1
  /\ UNCHANGED <<rng, classPieces, cfg, inst, calls>>

\* one engine in deterministic mode: a full grid, a grid with one cell left
\* under a seed that finds this cell late, and the default counts
StepConfigs ==
  {<<Size * Size, 0, 42>>, <<Size * Size - 1, 0, 4778>>, <<NumWalls, NumHoles, 42>>}

\* the statements the interpreter executes once reset() has been called
Statement(e) == FirstDraw(e) \/ Retry(e) \/ Place(e) \/ Raise(e) \/ Return(e)

NextSteps ==
  \E e \in {"a"} :
    \/ \E c \in StepConfigs : Construct(e, c[1], c[2], FALSE, c[3])
    \/ ResetBegin(e)
    \/ FirstDraw(e)
    \/ Retry(e)
    \/ Place(e)
    \/ Raise(e)
    \/ Return(e)
    \/ Move(e, <<0, 1, 0, 0>>)

SpecSteps == Init /\ [][NextSteps]_vars

\* a called reset() is executed on: the interpreter does not stop between two
\* statements
LiveSteps == SpecSteps /\ WF_vars(\E e \in {"a"} : Statement(e))

\* ------------------------------------------------------------ placement calls
\* a public placement method called on an engine: it writes through
\* self.pieces, into the class attribute while the instance has no pieces of
\* its own
Placement(e, op, arg, res) ==
  /\ cfg[e].made
  /\ run.pc = "idle"
  /\ calls < MaxCalls
  /\ res.st # "eos"
  /\ IF inst[e].own
     THEN /\ inst' = [inst EXCEPT ![e].pieces = res.pieces]
          /\ UNCHANGED classPieces
     ELSE /\ classPieces' = res.pieces
          /\ UNCHANGED inst
  /\ rng' = res.rng
  /\ log' = [log EXCEPT ![e] = [complete |-> FALSE, calls |-> <<>>]]
  /\ last' = Call(op, e, arg, Pieces(e), 0, FALSE, res.st)
  /\ calls' = calls + 1
  /\ UNCHANGED <<cfg, placed, start, resets, run>>

SetPlayer(e, pos) == Placement(e, "set_player", pos, set_player(Pieces(e), rng, pos))

AddGoal(e) == Placement(e, "add_goal", None, add_goal(Pieces(e), rng))

AddWalls(e, count) == Placement(e, "add_walls", <<count>>, add_walls(Pieces(e), rng, count))

AddHoles(e, count) == Placement(e, "add_holes", <<count>>, add_holes(Pieces(e), rng, count))

\* two engines of one process in deterministic mode, each given one reset, and
\* moves and placement calls before and after it, in every order
NextApi ==
  \E e \in Engines :
    \/ Construct(e, NumWalls, NumHoles, FALSE, 42)
    \/ ~inst[e].own /\ Reset(e)
    \/ Move(e, <<0, 1, 0, 0>>)
    \/ \E pos \in {None, <<0, 0>>} : SetPlayer(e, pos)
    \/ AddGoal(e)
    \/ AddWalls(e, 1)
    \/ AddHoles(e, 1)

SpecApi == Init /\ [][NextApi]_vars

\* ------------------------------------------------------------ claims
\* whether the positions of a sequence are pairwise distinct
Distinct(q) == \A i, j \in 1..Len(q) : i # j => q[i] # q[j]

InGrid(pos) == pos[1] \in 0..(Size - 1) /\ pos[2] \in 0..(Size - 1)

\* the cell an intent points at: one step in the direction of its first set flag
Candidate(pos, action) ==
  CASE action[1] = 1 -> <<pos[1] - 1, pos[2]>>
    [] action[1] = 0 /\ action[2] = 1 -> <<pos[1] + 1, pos[2]>>
    [] action[1] = 0 /\ action[2] = 0 /\ action[3] = 1 -> <<pos[1], pos[2] - 1>>
    [] action[1] = 0 /\ action[2] = 0 /\ action[3] = 0 /\ action[4] = 1 -> <<pos[1], pos[2] + 1>>
    [] OTHER -> pos

\* whether the move that `last` records bounced: off the grid or into a Wall
Bounced ==
  /\ last.op = "move"
  /\ \/ ~InGrid(Candidate(last.pre.Player, last.action))
     \/ Candidate(last.pre.Player, last.action) \in Range(last.pre.Walls)

\* the engine of the latest call holds a placement that a returned reset() made
AfterReset == last.op \in {"reset", "move"} /\ placed[last.e]

\* C1 as the spec states it: after a successful reset() and any moves, Player,
\* Goal, every Wall and every Hole are on pairwise distinct cells
C1_AllDistinct ==
  \A e \in Engines : placed[e] =>
    Distinct(<<Pieces(e).Player, Pieces(e).Goal>> \o Pieces(e).Walls \o Pieces(e).Holes)

\* C1 amended: after a successful reset() and any moves, the Goal, every Wall and
\* every Hole are on pairwise distinct cells and the Player is on no Wall; the
\* Player may share its cell with the Goal or with a Hole
C1_DistinctButPlayer ==
  \A e \in Engines : placed[e] =>
    /\ Distinct(<<Pieces(e).Goal>> \o Pieces(e).Walls \o Pieces(e).Holes)
    /\ Pieces(e).Player \notin Range(Pieces(e).Walls)

C1_Witness ==
  /\ AfterReset /\ last.op = "move"
  /\ Len(Pieces(last.e).Walls) > 0
  /\ Pieces(last.e).Player \in Range(Pieces(last.e).Holes)
  /\ last.pre.Player # Pieces(last.e).Player

\* C2: right after a successful reset() the Player is not on the Goal, not on a
\* Wall and not on a Hole
C2_PlayerStartsFree ==
  (last.op = "reset" /\ last.st = "ok") =>
    Pieces(last.e).Player \notin
      {Pieces(last.e).Goal} \cup Range(Pieces(last.e).Walls) \cup Range(Pieces(last.e).Holes)

\* C4: every move_player() returns (+10, true) when the Player is then on the
\* Goal, else (-10, true) when it is on a Hole, else (-1, false)
C4_RewardPolicy ==
  last.op = "move" =>
    LET P == Pieces(last.e)
    IN  /\ P.Player = P.Goal => last.reward = 10 /\ last.terminal
        /\ (P.Player # P.Goal /\ P.Player \in Range(P.Holes)) =>
             last.reward = -10 /\ last.terminal
        /\ (P.Player # P.Goal /\ P.Player \notin Range(P.Holes)) =>
             last.reward = -1 /\ ~last.terminal
        /\ last.terminal <=> (P.Player = P.Goal \/ P.Player \in Range(P.Holes))

C4_Witness ==
  /\ AfterReset /\ last.op = "move"
  /\ last.reward = -10 /\ last.terminal
  /\ last.pre.Player # Pieces(last.e).Player

C6_InBounds ==
  \A e \in Engines : placed[e] =>
    \A pos \in {Pieces(e).Player, Pieces(e).Goal}
                 \cup Range(Pieces(e).Walls) \cup Range(Pieces(e).Holes) : InGrid(pos)

C6_Witness ==
  /\ AfterReset /\ Bounced
  /\ ~InGrid(Candidate(last.pre.Player, last.action))

\* C7: after move_player() the Player is on the candidate cell when that cell is
\* inside the grid and not a Wall (a Hole or the Goal included), else where it was
C7_MoveResolution ==
  last.op = "move" =>
    LET c == Candidate(last.pre.Player, last.action)
    IN  Pieces(last.e).Player =
          IF InGrid(c) /\ c \notin Range(last.pre.Walls) THEN c ELSE last.pre.Player

C7_Witness ==
  /\ AfterReset /\ last.op = "move"
  /\ Pieces(last.e).Player = Pieces(last.e).Goal
  /\ last.pre.Player # Pieces(last.e).Player

\* the intent that keeps only the first set flag of an intent
FirstOnly(action) ==
  LET first == CHOOSE i \in 1..4 : action[i] = 1 /\ \A j \in 1..(i - 1) : action[j] = 0
  IN  IF \E i \in 1..4 : action[i] = 1
      THEN [i \in 1..4 |-> IF i = first THEN 1 ELSE 0]
      ELSE action

\* C8: move_player() with several flags set leaves the Player where the intent
\* with only the first of them leaves it, and returns the same (reward, terminal)
C8_PriorityOrder ==
  last.op = "move" =>
    LET m == move_player(last.pre, rng, FirstOnly(last.action))
    IN  /\ Pieces(last.e) = m.pieces
        /\ last.reward = m.reward
        /\ last.terminal = m.terminal

C8_Witness ==
  /\ AfterReset /\ last.op = "move"
  /\ last.action = <<1, 0, 1, 0>>
  /\ Pieces(last.e).Player = <<last.pre.Player[1] - 1, last.pre.Player[2]>>

\* C9: a call that is not reset() leaves the Goal, the Walls and the Holes of
\* the engine as they were
C9_MoveFrame ==
  last.op \in {"move", "init"} =>
    /\ Pieces(last.e).Goal = last.pre.Goal
    /\ Pieces(last.e).Walls = last.pre.Walls
    /\ Pieces(last.e).Holes = last.pre.Holes

C9_Witness ==
  /\ AfterReset /\ last.op = "move"
  /\ last.pre.Player # Pieces(last.e).Player
  /\ Len(Pieces(last.e).Walls) > 0 /\ Len(Pieces(last.e).Holes) > 0

\* C10: in deterministic mode every successful reset() of an engine places the
\* pieces where its first reset() placed them
C10_ResetReproduces ==
  (last.op = "reset" /\ last.st = "ok" /\ ~cfg[last.e].use_random) =>
    Pieces(last.e) = start[last.e]

\* the calls of a log without what they returned
Calls(l) == [i \in 1..Len(l.calls) |-> <<l.calls[i].op, l.calls[i].action>>]

\* C3: two engines of the same deterministic configuration that were given the
\* same calls returned the same state tensors and the same (reward, terminal)
C3_Determinism ==
  \A e1, e2 \in Engines :
    ( /\ cfg[e1].made /\ cfg[e2].made /\ cfg[e1] = cfg[e2] /\ ~cfg[e1].use_random
      /\ log[e1].complete /\ log[e2].complete
      /\ Calls(log[e1]) = Calls(log[e2]) )
    => log[e1].calls = log[e2].calls

\* C11: after a successful reset() and any moves, get_state() has one set cell
\* in the Player layer, at the Player, one in the Goal layer, at the Goal, as
\* many in the Walls layer as the wall count and as many in the Holes layer as
\* the hole count, whatever the number of resets before
C11_TensorShape ==
  \A e \in Engines : placed[e] =>
    LET T == get_state(Pieces(e))
    IN  /\ T[1] = {Pieces(e).Player} /\ Cardinality(T[1]) = 1
        /\ T[2] = {Pieces(e).Goal} /\ Cardinality(T[2]) = 1
        /\ Cardinality(T[3]) = cfg[e].walls
        /\ Cardinality(T[4]) = cfg[e].holes

C11_Witness ==
  /\ AfterReset /\ last.op = "move"
  /\ resets >= 2
  /\ cfg[last.e].walls > 0 /\ cfg[last.e].holes > 0
  /\ last.pre.Player # Pieces(last.e).Player

\* C12: an engine whose wall count + hole count + 2 exceeds size * size never
\* holds the placement of a returned reset()
C12_InfeasibleRejected ==
  \A e \in Engines :
    (cfg[e].made /\ cfg[e].walls + cfg[e].holes + 2 > Size * Size) => ~placed[e]

\* C13: an engine with a negative wall count or a negative hole count never
\* holds the placement of a returned reset()
C13_NegativeRejected ==
  \A e \in Engines :
    (cfg[e].made /\ (cfg[e].walls < 0 \/ cfg[e].holes < 0)) => ~placed[e]

\* the code the single-layer render is to show at a cell: the Player on top,
\* else the one entity on the cell, else 0
TopCode(P, c) ==
  IF c = P.Player THEN 1
  ELSE IF c \in Range(P.Walls) THEN 2
  ELSE IF c \in Range(P.Holes) THEN 3
  ELSE IF c = P.Goal THEN 4
  ELSE 0

\* C14: after a successful reset() and any moves, to_array() and render() show
\* the Player code at the Player's cell, also when the Goal or a Hole is on that
\* cell, and at every other cell the code of the entity on it, or 0
C14_RenderPrecedence ==
  \A e \in Engines : placed[e] =>
    \A c \in Cells :
      /\ to_array(Pieces(e))[c] = TopCode(Pieces(e), c)
      /\ render(Pieces(e))[c[1] + 1][c[2] + 1] = render_map[TopCode(Pieces(e), c)]

\* C15: a _get_empty_pos call that came to its end drew at most 101 cells
\* (1 + 100 retries); when it returned, it returned the first cell it drew that
\* was not occupied; when it raised, every cell it drew was occupied
C15_AllocatorBudget ==
  run.out # "none" =>
    /\ run.draws <= MaxAttempts + 1
    /\ run.out = "ok" => (run.free # None /\ run.pos = run.free)
    /\ run.out = "raise" => run.free = None

\* C16: a call on one engine leaves the pieces that every other constructed
\* engine reads as they were
C16_EngineIsolation ==
  [][\A e \in Engines : (cfg[e].made /\ last'.e # e) => Pieces(e)' = Pieces(e)]_vars

\* C17: a reset() that was called comes to its end: it returns or it raises
C17_ResetTerminates ==
  (run.pc # "idle") ~>
    (run.pc = "idle" /\ last.op = "reset" /\ last.st \in {"ok", "raise"})

\* a reset() came to its end by the exception of an allocation that used up
\* its attempts
C17_Witness ==
  /\ run.pc = "idle" /\ last.op = "reset" /\ last.st = "raise"
  /\ run.attempts > MaxAttempts

\* C18: every move_player() returns a (reward, terminal) pair and raises
\* nothing, whatever the intent, also before the first reset() and after a
\* terminal step
C18_MoveNeverFails ==
  last.op = "move" =>
    /\ last.st = "ok"
    /\ last.reward \in {10, -10, -1}
    /\ last.terminal \in BOOLEAN

\* a move before the first reset(), the Player still at the unplaced sentinel
C18_Witness ==
  /\ last.op = "move" /\ last.st = "ok"
  /\ ~inst[last.e].own
  /\ last.pre.Player = Unplaced
  /\ last.action = <<0, 1, 0, 1>>

\* C19: after a successful reset() and any moves, the Goal, the Walls and the
\* Holes take as many cells as they are pieces, and no Wall is where the Player
\* is: only the Player shares a cell, with the Goal or with a Hole
C19_OnlyPlayerShares ==
  \A e \in Engines : placed[e] =>
    /\ Cardinality({Pieces(e).Goal} \cup Range(Pieces(e).Walls) \cup Range(Pieces(e).Holes))
         = 1 + Len(Pieces(e).Walls) + Len(Pieces(e).Holes)
    /\ \A i \in 1..Len(Pieces(e).Walls) : Pieces(e).Walls[i] # Pieces(e).Player

\* a move took the Player onto the Goal's cell
C19_Witness ==
  /\ AfterReset /\ last.op = "move"
  /\ Pieces(last.e).Player = Pieces(last.e).Goal
  /\ last.pre.Player # Pieces(last.e).Player
  /\ Len(Pieces(last.e).Walls) > 0 /\ Len(Pieces(last.e).Holes) > 0

====
